---- MODULE Spec2Model ----
(***************************************************************************)
(* CSV upsert: table inference from the file name, column mapping, per-row *)
(* validation and casting, and the three-way reconciliation (insert /      *)
(* update / skip) of the validated rows against the rows of a remote       *)
(* table.  Model of src/app.py.                                            *)
(***************************************************************************)
EXTENDS Integers, Sequences, FiniteSets, TLC

(***************************************************************************)
(* Text.  TLC cannot look inside a string, so every string the program     *)
(* inspects character by character is spelled out here.                    *)
(***************************************************************************)
Spell(s) ==
  CASE s = "2024_GuestLog_Export.csv" -> <<"2", "0", "2", "4", "_", "G", "u", "e", "s", "t", "L", "o", "g", "_", "E", "x", "p", "o", "r", "t", ".", "c", "s", "v">>
    [] s = "random.csv" -> <<"r", "a", "n", "d", "o", "m", ".", "c", "s", "v">>
    [] s = "org-entity.csv" -> <<"o", "r", "g", "-", "e", "n", "t", "i", "t", "y", ".", "c", "s", "v">>
    [] s = "Policy Risk.csv" -> <<"P", "o", "l", "i", "c", "y", " ", "R", "i", "s", "k", ".", "c", "s", "v">>
    [] s = "guest_log.txt" -> <<"g", "u", "e", "s", "t", "_", "l", "o", "g", ".", "t", "x", "t">>
    [] s = "NAME" -> <<"N", "A", "M", "E">>
    [] s = "LOG_DATE" -> <<"L", "O", "G", "_", "D", "A", "T", "E">>
    [] s = "ID" -> <<"I", "D">>
    [] s = "ACCOUNT_NAME" -> <<"A", "C", "C", "O", "U", "N", "T", "_", "N", "A", "M", "E">>
    [] s = "SIGMA_DOLLAR_OPPORTUNITY_ESTIMATE" -> <<"S", "I", "G", "M", "A", "_", "D", "O", "L", "L", "A", "R", "_", "O", "P", "P", "O", "R", "T", "U", "N", "I", "T", "Y", "_", "E", "S", "T", "I", "M", "A", "T", "E">>
    [] s = "POLICY_ID" -> <<"P", "O", "L", "I", "C", "Y", "_", "I", "D">>
    [] s = "LAST_CLAIM_DATE" -> <<"L", "A", "S", "T", "_", "C", "L", "A", "I", "M", "_", "D", "A", "T", "E">>
    [] s = "CLAIM_COUNT" -> <<"C", "L", "A", "I", "M", "_", "C", "O", "U", "N", "T">>
    [] s = "SMOKER_STATUS" -> <<"S", "M", "O", "K", "E", "R", "_", "S", "T", "A", "T", "U", "S">>
    [] s = "DATA_UPLOAD_TIMESTAMP" -> <<"D", "A", "T", "A", "_", "U", "P", "L", "O", "A", "D", "_", "T", "I", "M", "E", "S", "T", "A", "M", "P">>
    [] s = "name" -> <<"n", "a", "m", "e">>
    [] s = "Log Date" -> <<"L", "o", "g", " ", "D", "a", "t", "e">>
    [] s = "log_date" -> <<"l", "o", "g", "_", "d", "a", "t", "e">>
    [] s = "LOG-DATE" -> <<"L", "O", "G", "-", "D", "A", "T", "E">>
    [] s = "Notes" -> <<"N", "o", "t", "e", "s">>
    [] s = "Account Name" -> <<"A", "c", "c", "o", "u", "n", "t", " ", "N", "a", "m", "e">>
    [] s = "sigma-dollar-opportunity-estimate" -> <<"s", "i", "g", "m", "a", "-", "d", "o", "l", "l", "a", "r", "-", "o", "p", "p", "o", "r", "t", "u", "n", "i", "t", "y", "-", "e", "s", "t", "i", "m", "a", "t", "e">>
    [] s = "id" -> <<"i", "d">>
    [] s = "policy_id" -> <<"p", "o", "l", "i", "c", "y", "_", "i", "d">>
    [] s = "Last Claim Date" -> <<"L", "a", "s", "t", " ", "C", "l", "a", "i", "m", " ", "D", "a", "t", "e">>
    [] s = "claim count" -> <<"c", "l", "a", "i", "m", " ", "c", "o", "u", "n", "t">>
    [] s = "Smoker-Status" -> <<"S", "m", "o", "k", "e", "r", "-", "S", "t", "a", "t", "u", "s">>
    [] s = "data_upload_timestamp" -> <<"d", "a", "t", "a", "_", "u", "p", "l", "o", "a", "d", "_", "t", "i", "m", "e", "s", "t", "a", "m", "p">>
    [] s = "" -> <<>>
    [] s = " " -> <<" ">>
    [] s = "A" -> <<"A">>
    [] s = "B" -> <<"B">>
    [] s = "x" -> <<"x">>
    [] s = "None" -> <<"N", "o", "n", "e">>
    [] s = "Acme" -> <<"A", "c", "m", "e">>
    [] s = "E1" -> <<"E", "1">>
    [] s = "E2" -> <<"E", "2">>
    [] s = "P1" -> <<"P", "1">>
    [] s = "P2" -> <<"P", "2">>
    [] s = "2024-01-01" -> <<"2", "0", "2", "4", "-", "0", "1", "-", "0", "1">>
    [] s = "01/01/2024" -> <<"0", "1", "/", "0", "1", "/", "2", "0", "2", "4">>
    [] s = "2024-01-02" -> <<"2", "0", "2", "4", "-", "0", "1", "-", "0", "2">>
    [] s = "13/45/2024" -> <<"1", "3", "/", "4", "5", "/", "2", "0", "2", "4">>
    [] s = "2024-01-01 12:00:00" -> <<"2", "0", "2", "4", "-", "0", "1", "-", "0", "1", " ", "1", "2", ":", "0", "0", ":", "0", "0">>
    [] s = "2024-01-01 12:00:00.5" -> <<"2", "0", "2", "4", "-", "0", "1", "-", "0", "1", " ", "1", "2", ":", "0", "0", ":", "0", "0", ".", "5">>
    [] s = "2024-01-01 12:00:01" -> <<"2", "0", "2", "4", "-", "0", "1", "-", "0", "1", " ", "1", "2", ":", "0", "0", ":", "0", "1">>
    [] s = "true" -> <<"t", "r", "u", "e">>
    [] s = "Yes" -> <<"Y", "e", "s">>
    [] s = "false" -> <<"f", "a", "l", "s", "e">>
    [] s = "0" -> <<"0">>
    [] s = "maybe" -> <<"m", "a", "y", "b", "e">>
    [] s = "3" -> <<"3">>
    [] s = "3.0" -> <<"3", ".", "0">>
    [] s = "4" -> <<"4">>
    [] s = "3.5" -> <<"3", ".", "5">>
    [] s = "abc" -> <<"a", "b", "c">>
    [] s = "0.0" -> <<"0", ".", "0">>
    [] s = "5e-10" -> <<"5", "e", "-", "1", "0">>
    [] s = "1e-08" -> <<"1", "e", "-", "0", "8">>
    [] s = "nan" -> <<"n", "a", "n">>
    [] s = "guestlog" -> <<"g", "u", "e", "s", "t", "l", "o", "g">>
    [] s = "orgentities" -> <<"o", "r", "g", "e", "n", "t", "i", "t", "i", "e", "s">>
    [] s = "orgentity" -> <<"o", "r", "g", "e", "n", "t", "i", "t", "y">>
    [] s = "policyriskdata" -> <<"p", "o", "l", "i", "c", "y", "r", "i", "s", "k", "d", "a", "t", "a">>
    [] s = "policyrisk" -> <<"p", "o", "l", "i", "c", "y", "r", "i", "s", "k">>
    [] s = ".csv" -> <<".", "c", "s", "v">>
    [] s = "1" -> <<"1">>
    [] s = "no" -> <<"n", "o">>
    [] s = "yes" -> <<"y", "e", "s">>

UpperCase ==
  <<"A", "B", "C", "D", "E", "F", "G", "H", "I", "J", "K", "L", "M",
    "N", "O", "P", "Q", "R", "S", "T", "U", "V", "W", "X", "Y", "Z">>

LowerCase ==
  <<"a", "b", "c", "d", "e", "f", "g", "h", "i", "j", "k", "l", "m",
    "n", "o", "p", "q", "r", "s", "t", "u", "v", "w", "x", "y", "z">>

\* str.lower() on one character
ToLower(c) ==
  IF \E i \in 1..Len(UpperCase) : UpperCase[i] = c
    THEN LowerCase[CHOOSE i \in 1..Len(UpperCase) : UpperCase[i] = c]
    ELSE c

\* str.lower()
lower(cs) == [i \in 1..Len(cs) |-> ToLower(cs[i])]

NotSeparator(c) == c \notin {" ", "_", "-"}

NotSpace(c) == c # " "

\* str.strip() == "" : nothing but white space
IsBlank(cs) == SelectSeq(cs, NotSpace) = <<>>

\* str.strip()
strip(cs) ==
  IF IsBlank(cs) THEN <<>>
  ELSE LET first == CHOOSE i \in 1..Len(cs) :
                      cs[i] # " " /\ \A j \in 1..(i - 1) : cs[j] = " "
           last  == CHOOSE i \in 1..Len(cs) :
                      cs[i] # " " /\ \A j \in (i + 1)..Len(cs) : cs[j] = " "
       IN  SubSeq(cs, first, last)

\* sub in s
Contains(s, sub) ==
  \E i \in 0..(Len(s) - Len(sub)) : SubSeq(s, i + 1, i + Len(sub)) = sub

\* s.endswith(suffix)
EndsWith(s, suffix) ==
  /\ Len(s) >= Len(suffix)
  /\ SubSeq(s, Len(s) - Len(suffix) + 1, Len(s)) = suffix

\* The file names, headers and column names of the model
Names ==
  {"2024_GuestLog_Export.csv", "random.csv", "org-entity.csv", "Policy Risk.csv",
   "guest_log.txt",
   "NAME", "LOG_DATE", "ID", "ACCOUNT_NAME", "SIGMA_DOLLAR_OPPORTUNITY_ESTIMATE",
   "POLICY_ID", "LAST_CLAIM_DATE", "CLAIM_COUNT", "SMOKER_STATUS",
   "DATA_UPLOAD_TIMESTAMP",
   "name", "Log Date", "log_date", "LOG-DATE", "Notes",
   "Account Name", "sigma-dollar-opportunity-estimate", "id",
   "policy_id", "Last Claim Date", "claim count", "Smoker-Status",
   "data_upload_timestamp"}

\* re.sub(r'[\s_\-]', '', name).lower(), as the characters of the result,
\* tabulated over Names
NormalForm == [name \in Names |-> lower(SelectSeq(Spell(name), NotSeparator))]

normalize_name(name) == NormalForm[name]

\* The set of the elements of a sequence
Range(s) == {s[i] : i \in 1..Len(s)}

(***************************************************************************)
(* Table definitions.  ORG_ENTITIES and PolicyRiskData are cut down to one *)
(* column of each type they declare; the columns left out repeat the types *)
(* kept.  Column order is the order of declaration.                        *)
(***************************************************************************)
TABLES ==
  [guest_log |->
     [primary_keys |-> <<"NAME", "LOG_DATE">>,
      columns |-> << <<"NAME", "str">>, <<"LOG_DATE", "date">> >>],
   org_entities |->
     [primary_keys |-> <<"ID">>,
      columns |-> << <<"ACCOUNT_NAME", "str">>,
                     <<"SIGMA_DOLLAR_OPPORTUNITY_ESTIMATE", "float">>,
                     <<"ID", "str">> >>],
   policyriskdata |->
     [primary_keys |-> <<"POLICY_ID">>,
      columns |-> << <<"POLICY_ID", "str">>,
                     <<"CLAIM_COUNT", "int">>,
                     <<"LAST_CLAIM_DATE", "date">>,
                     <<"SMOKER_STATUS", "bool">>,
                     <<"DATA_UPLOAD_TIMESTAMP", "datetime">> >>]]

NoTable == "None"

\* list(table_def["columns"].keys())
RequiredCols(table_key) ==
  [i \in 1..Len(TABLES[table_key].columns) |-> TABLES[table_key].columns[i][1]]

\* table_def["columns"]
ColTypes(table_key) ==
  [c \in Range(RequiredCols(table_key)) |->
     LET i == CHOOSE j \in 1..Len(TABLES[table_key].columns) :
                TABLES[table_key].columns[j][1] = c
     IN  TABLES[table_key].columns[i][2]]

\* table_def["primary_keys"]
PkCols(table_key) == TABLES[table_key].primary_keys

match_table(filename) ==
  LET fname == normalize_name(filename)
  IN  IF Contains(fname, Spell("guestlog")) THEN "guest_log"
      ELSE IF Contains(fname, Spell("orgentities"))
              \/ Contains(fname, Spell("orgentity")) THEN "org_entities"
      ELSE IF Contains(fname, Spell("policyriskdata"))
              \/ Contains(fname, Spell("policyrisk")) THEN "policyriskdata"
      ELSE NoTable

(***************************************************************************)
(* Column mapping.  A dict is a sequence of <<key, value>> pairs in        *)
(* insertion order; the uploaded headers are pairwise distinct.            *)
(***************************************************************************)
Keys(d) == {d[i][1] : i \in 1..Len(d)}

Values(d) == {d[i][2] : i \in 1..Len(d)}

\* norm_required[norm]: the dict comprehension keeps the last required column
\* of a given normal form
NormRequired(required_cols, norm) ==
  LET hits == {i \in 1..Len(required_cols) :
                 normalize_name(required_cols[i]) = norm}
  IN  required_cols[CHOOSE i \in hits : \A j \in hits : j <= i]

RECURSIVE build_column_map(_, _)
build_column_map(uploaded_cols, required_cols) ==
  IF uploaded_cols = <<>> THEN <<>>
  ELSE LET n    == Len(uploaded_cols)
           c    == uploaded_cols[n]
           norm == normalize_name(c)
           rest == build_column_map(SubSeq(uploaded_cols, 1, n - 1), required_cols)
       IN  IF \E r \in Range(required_cols) : normalize_name(r) = norm
             THEN Append(rest, <<c, NormRequired(required_cols, norm)>>)
             ELSE rest

\* [col for col in required_cols if col not in col_map.values()]
MissingCols(required_cols, col_map) ==
  LET Absent(col) == col \notin Values(col_map)
  IN  SelectSeq(required_cols, Absent)

\* Faulty variant of ExtraCols: unmapped headers are not looked for
ExtraColsIgnored(uploaded_cols, col_map) == <<>>

\* [c for c in df.columns if c not in col_map]
ExtraCols(uploaded_cols, col_map) ==
  LET Unmapped(c) == c \notin Keys(col_map)
  IN  SelectSeq(uploaded_cols, Unmapped)

(***************************************************************************)
(* Values.  Every value is a record of one shape: a type tag t, a text s,  *)
(* a whole number n and a fraction f.  A float is n + f * 5e-10 with       *)
(* 0 <= f < FracPerOne; a timestamp is n seconds after 2024-01-01 00:00:00 *)
(* and f microseconds; a date is n days after 2024-01-01.  NULL stands for *)
(* None, NaN, NaT and <NA>: the values pd.isnull accepts.                  *)
(***************************************************************************)
NULL == [t |-> "null", s |-> "", n |-> 0, f |-> 0]

StrV(s) == [t |-> "str", s |-> s, n |-> 0, f |-> 0]

IntV(n) == [t |-> "int", s |-> "", n |-> n, f |-> 0]

FloatV(n, f) == [t |-> "float", s |-> "", n |-> n, f |-> f]

BoolV(b) == [t |-> "bool", s |-> "", n |-> IF b THEN 1 ELSE 0, f |-> 0]

DateV(d) == [t |-> "date", s |-> "", n |-> d, f |-> 0]

TimestampV(secs, micros) == [t |-> "datetime", s |-> "", n |-> secs, f |-> micros]

\* pd.isnull(val)
isnull(v) == v.t = "null"

FracPerOne == 2 * 1000000000

SecondsPerDay == 24 * 60 * 60

\* 1e-9, in units of 5e-10
Tolerance == 2

\* pd.to_datetime(val, errors="coerce") on the cells of the model
to_datetime(val) ==
  CASE val = "2024-01-01"            -> TimestampV(0, 0)
    [] val = "01/01/2024"            -> TimestampV(0, 0)
    [] val = "2024-01-02"            -> TimestampV(SecondsPerDay, 0)
    [] val = "2024-01-01 12:00:00"   -> TimestampV(12 * 60 * 60, 0)
    [] val = "2024-01-01 12:00:00.5" -> TimestampV(12 * 60 * 60, 500000)
    [] val = "2024-01-01 12:00:01"   -> TimestampV(12 * 60 * 60 + 1, 0)
    [] OTHER                         -> NULL

\* Timestamp.date()
DateOf(dt) == DateV(dt.n \div SecondsPerDay)

\* float(val) on the cells of the model; err stands for ValueError
ParseFloat(val) ==
  CASE val = "0.0"   -> [err |-> FALSE, v |-> FloatV(0, 0)]
    [] val = "0"     -> [err |-> FALSE, v |-> FloatV(0, 0)]
    [] val = "5e-10" -> [err |-> FALSE, v |-> FloatV(0, 1)]
    [] val = "1e-08" -> [err |-> FALSE, v |-> FloatV(0, 20)]
    [] val = "1"     -> [err |-> FALSE, v |-> FloatV(1, 0)]
    [] val = "3"     -> [err |-> FALSE, v |-> FloatV(3, 0)]
    [] val = "3.0"   -> [err |-> FALSE, v |-> FloatV(3, 0)]
    [] val = "4"     -> [err |-> FALSE, v |-> FloatV(4, 0)]
    [] val = "3.5"   -> [err |-> FALSE, v |-> FloatV(3, FracPerOne \div 2)]
    [] val = "nan"   -> [err |-> FALSE, v |-> NULL]
    [] OTHER         -> [err |-> TRUE, v |-> NULL]

\* float.is_integer()
is_integer(x) == ~isnull(x) /\ x.f = 0

Accept(v) == [ok |-> TRUE, v |-> v, kind |-> ""]

Reject(kind) == [ok |-> FALSE, v |-> NULL, kind |-> kind]

\* One pass of the loop body of validate_and_cast_row: the missing-value
\* check and the cast of one cell read from the CSV (always a string)
CastCell(val, expected_type) ==
  IF IsBlank(Spell(val)) THEN Reject("Missing value")
  ELSE CASE expected_type = "date" ->
              LET dt == to_datetime(val)
              IN  IF isnull(dt) THEN Reject("Invalid date") ELSE Accept(DateOf(dt))
         [] expected_type = "datetime" ->
              LET dt == to_datetime(val)
              IN  IF isnull(dt) THEN Reject("Invalid datetime") ELSE Accept(dt)
         [] expected_type = "bool" ->
              LET s == lower(strip(Spell(val)))
              IN  IF s \in {Spell("true"), Spell("1"), Spell("yes")}
                    THEN Accept(BoolV(TRUE))
                  ELSE IF s \in {Spell("false"), Spell("0"), Spell("no")}
                    THEN Accept(BoolV(FALSE))
                  ELSE Reject("Invalid boolean")
         [] expected_type = "int" ->
              LET x == ParseFloat(val)
              IN  IF x.err THEN Reject("Type error")
                  ELSE IF is_integer(x.v) THEN Accept(IntV(x.v.n))
                  ELSE Reject("Non-integer value")
         [] expected_type = "float" ->
              LET x == ParseFloat(val)
              IN  IF x.err THEN Reject("Type error") ELSE Accept(x.v)
         [] OTHER -> Accept(StrV(val))

\* dict[k] = v
Put(d, k, v) == [x \in (DOMAIN d) \cup {k} |-> IF x = k THEN v ELSE d[x]]

NoReason == [kind |-> "", col |-> ""]

RECURSIVE CastFrom(_, _, _, _, _)
CastFrom(i, row, col_map, col_types, casted) ==
  IF i > Len(col_map) THEN [ok |-> TRUE, casted |-> casted, reason |-> NoReason]
  ELSE LET orig_col == col_map[i][1]
           req_col  == col_map[i][2]
           c        == CastCell(row[orig_col], col_types[req_col])
       IN  IF c.ok
             THEN CastFrom(i + 1, row, col_map, col_types, Put(casted, req_col, c.v))
             ELSE [ok |-> FALSE, casted |-> <<>>,
                   reason |-> [kind |-> c.kind, col |-> orig_col]]

\* Returns (casted, None) as ok = TRUE and (None, reason) as ok = FALSE
validate_and_cast_row(row, col_map, col_types) ==
  CastFrom(1, row, col_map, col_types, <<>>)

(***************************************************************************)
(* Reconciliation.  A row is a function from column names to values; the   *)
(* rows of a frame carry src, the position in the file of the line they    *)
(* were cast from.                                                         *)
(***************************************************************************)
\* The keys of the casted dicts in insertion order: df.columns
RECURSIVE Distinct(_)
Distinct(s) ==
  IF s = <<>> THEN <<>>
  ELSE LET rest == Distinct(SubSeq(s, 1, Len(s) - 1))
           x    == s[Len(s)]
       IN  IF x \in Range(rest) THEN rest ELSE Append(rest, x)

DfColumns(col_map) == Distinct([i \in 1..Len(col_map) |-> col_map[i][2]])

\* The primary-key tuple of a row
PkOf(row, pk_cols) == [i \in 1..Len(pk_cols) |-> row[pk_cols[i]]]

\* df.drop_duplicates(subset=pk_cols): the first row of each key is kept
RECURSIVE drop_duplicates(_, _)
drop_duplicates(df, pk_cols) ==
  IF df = <<>> THEN <<>>
  ELSE LET rest == drop_duplicates(SubSeq(df, 1, Len(df) - 1), pk_cols)
           r    == df[Len(df)]
       IN  IF \E i \in 1..Len(rest) : PkOf(rest[i].row, pk_cols) = PkOf(r.row, pk_cols)
             THEN rest
             ELSE Append(rest, r)

\* session.table(fq_table).filter(<OR of ANDs over the keys of df>).to_pandas()
FetchRows(table_rows, df, pk_cols) ==
  LET Wanted(e) == \E i \in 1..Len(df) : PkOf(df[i].row, pk_cols) = PkOf(e, pk_cols)
  IN  SelectSeq(table_rows, Wanted)

\* The astype / to_datetime / to_numeric of one column value: a None of a
\* string column becomes the text "None", a None of a bool column False
Normalize(v, type) ==
  IF type = "str" /\ isnull(v) THEN StrV("None")
  ELSE IF type = "bool" /\ isnull(v) THEN BoolV(FALSE)
  ELSE v

NormalizeRow(row, columns, col_types) ==
  [c \in DOMAIN row |->
     IF c \in Range(columns) THEN Normalize(row[c], col_types[c]) ELSE row[c]]

NormalizeFrame(df, columns, col_types) ==
  [i \in 1..Len(df) |->
     [src |-> df[i].src, row |-> NormalizeRow(df[i].row, columns, col_types)]]

NormalizeExisting(existing, columns, col_types) ==
  [i \in 1..Len(existing) |-> NormalizeRow(existing[i], columns, col_types)]

\* df.merge(existing, on=pk_cols, how='left', indicator=True): one merged row
\* per matching existing row, or one left_only row with nulls
RECURSIVE merge(_, _, _)
merge(df, existing, pk_cols) ==
  IF df = <<>> THEN <<>>
  ELSE LET r       == Head(df)
           Same(e) == PkOf(e, pk_cols) = PkOf(r.row, pk_cols)
           m       == SelectSeq(existing, Same)
           here    == IF m = <<>>
                        THEN << [src |-> r.src, row |-> r.row, both |-> FALSE,
                                 exist |-> [c \in DOMAIN r.row |-> NULL]] >>
                        ELSE [j \in 1..Len(m) |->
                                [src |-> r.src, row |-> r.row, both |-> TRUE,
                                 exist |-> m[j]]]
       IN  here \o merge(Tail(df), existing, pk_cols)

\* isinstance(val, float) for a value of a normalized column
IsFloat(v, type) == type = "float"

Abs(x) == IF x < 0 THEN -x ELSE x

\* abs(a - b) > 1e-9 for two floats; any comparison with NaN is False
AbsDiffExceeds(a, b) ==
  IF isnull(a) \/ isnull(b) THEN FALSE
  ELSE LET dn == a.n - b.n
           df == a.f - b.f
       IN  IF dn = 0 THEN Abs(df) > Tolerance
           ELSE IF dn = 1 THEN df > Tolerance - FracPerOne
           ELSE IF dn = -1 THEN df < FracPerOne - Tolerance
           ELSE TRUE

\* str(val)
PyStr(v) ==
  IF isnull(v) THEN [s |-> "<null>", n |-> 0, f |-> 0]
  ELSE IF v.t = "bool" THEN [s |-> IF v.n = 1 THEN "True" ELSE "False", n |-> 0, f |-> 0]
  ELSE [s |-> v.s, n |-> v.n, f |-> v.f]

\* One pass of the comparison loop: TRUE when the pair does not clear is_identical
ValuesMatch(val_new, val_exist, type) ==
  IF isnull(val_new) /\ isnull(val_exist) THEN TRUE
  ELSE IF IsFloat(val_new, type) /\ IsFloat(val_exist, type)
    THEN ~AbsDiffExceeds(val_new, val_exist)
  ELSE PyStr(val_new) = PyStr(val_exist)

is_identical(m, columns, pk_cols, col_types) ==
  \A col \in Range(columns) \ Range(pk_cols) :
     ValuesMatch(m.row[col], m.exist[col], col_types[col])

\* A column label of a frame: a column name and the suffix the merge gave it
Label(col, suffix) == <<col, suffix>>

Plain(columns) == [i \in 1..Len(columns) |-> Label(columns[i], "")]

\* The columns of merged once '_merge' is dropped: those of df, then those of
\* existing outside the key, suffixed '_existing' where df has the column too
MergedColumns(columns, existing_columns, pk_cols) ==
  LET NotKey(c) == c \notin Range(pk_cols)
      right     == SelectSeq(existing_columns, NotKey)
  IN  Plain(columns) \o
      [i \in 1..Len(right) |->
         Label(right[i], IF right[i] \in Range(columns) THEN "_existing" ELSE "")]

\* The columns of pd.DataFrame(rows) for a list of row[df.columns]: none
\* when the list is empty
ListColumns(rows, columns) == IF rows = <<>> THEN <<>> ELSE Plain(columns)

Project(m) == [src |-> m.src, row |-> m.row]

Frame(ms) == [i \in 1..Len(ms) |-> Project(ms[i])]

\* merged[merged['_merge'] == 'left_only']
NewRows(merged) ==
  LET LeftOnly(m) == ~m.both
  IN  Frame(SelectSeq(merged, LeftOnly))

UpdatedRows(merged, columns, pk_cols, col_types) ==
  LET Changed(m) == m.both /\ ~is_identical(m, columns, pk_cols, col_types)
  IN  Frame(SelectSeq(merged, Changed))

SkippedRows(merged, columns, pk_cols, col_types) ==
  LET Identical(m) == m.both /\ is_identical(m, columns, pk_cols, col_types)
  IN  Frame(SelectSeq(merged, Identical))

\* The value a SQL literal built by the f-strings denotes: strftime with
\* '%Y-%m-%d %H:%M:%S' drops the microseconds of a timestamp
SqlValue(val, type) ==
  IF isnull(val) THEN NULL
  ELSE IF type = "datetime" THEN TimestampV(val.n, 0)
  ELSE val

\* Faulty variant of ExecInsert: the row goes in only if the table does not hold it
ExecInsertIfAbsent(table_rows, r, columns, col_types) ==
  LET row == [c \in Range(columns) |-> SqlValue(r[c], col_types[c])]
  IN  IF row \in Range(table_rows) THEN table_rows ELSE Append(table_rows, row)

\* INSERT INTO fq_table (df.columns) VALUES (...)
ExecInsert(table_rows, r, columns, col_types) ==
  Append(table_rows, [c \in Range(columns) |-> SqlValue(r[c], col_types[c])])

\* UPDATE fq_table SET <non-key columns> WHERE <key columns equal>
ExecUpdate(table_rows, r, columns, pk_cols, col_types) ==
  [i \in 1..Len(table_rows) |->
     IF PkOf(table_rows[i], pk_cols) = PkOf(r, pk_cols)
       THEN [c \in DOMAIN table_rows[i] |->
               IF c \in Range(columns) \ Range(pk_cols)
                 THEN SqlValue(r[c], col_types[c])
                 ELSE table_rows[i][c]]
       ELSE table_rows[i]]

(***************************************************************************)
(* The uploads.  store is the remote database: for every table the rows it *)
(* holds, in order; nothing enforces a primary key there.  up[u] is the    *)
(* state of one run of the script for one uploaded file.                   *)
(***************************************************************************)
VARIABLES store, up

vars == <<store, up>>

Uploads == {1, 2}

\* Lines per file
MaxRows == 2

\* Runs of the script per uploaded file
MaxRuns == 2

TableKeys == {"guest_log", "org_entities", "policyriskdata"}

NoBanner == [kind |-> "", missing |-> <<>>, extra |-> <<>>]

NoFile == [name |-> "", headers |-> <<>>, rows |-> <<>>]

NoPrev == [ran |-> FALSE, completed |-> FALSE]

\* The locals of the script at its first line; store0 and prev are history
Fresh(pc, file, run, prev, store0) ==
  [pc |-> pc, file |-> file, run |-> run, prev |-> prev, store0 |-> store0,
   table_key |-> NoTable, col_map |-> <<>>, missing |-> <<>>, extra |-> <<>>,
   error_banner |-> NoBanner, warning_banner |-> FALSE,
   i |-> 1, valid_rows |-> <<>>, rejected |-> <<>>,
   df |-> <<>>, columns |-> <<>>, existing |-> <<>>,
   new_rows |-> <<>>, updated_rows |-> <<>>, skipped_rows |-> <<>>,
   new_columns |-> <<>>, updated_columns |-> <<>>, skipped_columns |-> <<>>,
   inserted |-> 0, updated |-> 0, skipped |-> 0, log |-> <<>>]

Set(u, changes) == up' = [up EXCEPT ![u] = changes @@ up[u]]

\* File type check and match_table
ResolveTable(u) ==
  /\ up[u].pc = "start"
  /\ LET name      == up[u].file.name
         table_key == match_table(name)
     IN  IF ~EndsWith(lower(Spell(name)), Spell(".csv"))
           THEN Set(u, [pc |-> "stopped"])
         ELSE IF table_key = NoTable
           THEN Set(u, [pc |-> "done",
                        error_banner |-> [kind |-> "UnrecognizedFile",
                                          missing |-> <<>>, extra |-> <<>>]])
         ELSE Set(u, [pc |-> "map", table_key |-> table_key])
  /\ UNCHANGED store

\* Faulty variant of MapColumns: the extra headers are checked before the missing columns
MapColumnsExtraFirst(u) ==
  /\ up[u].pc = "map"
  /\ LET required_cols == RequiredCols(up[u].table_key)
         col_map       == build_column_map(up[u].file.headers, required_cols)
         missing       == MissingCols(required_cols, col_map)
         extra         == ExtraCols(up[u].file.headers, col_map)
         found         == [col_map |-> col_map, missing |-> missing, extra |-> extra]
         Fail(banner)  == Set(u, found @@ [pc |-> "done", error_banner |-> banner])
     IN  IF extra # <<>>
           THEN Fail([kind |-> "ExtraColumns", missing |-> <<>>, extra |-> extra])
         ELSE IF missing # <<>>
           THEN Fail([kind |-> "MissingColumns", missing |-> missing, extra |-> <<>>])
         ELSE IF Values(col_map) # Range(required_cols)
           THEN Fail([kind |-> "MappingError", missing |-> <<>>, extra |-> <<>>])
         ELSE Set(u, found @@ [pc |-> "validate"])
  /\ UNCHANGED store

\* build_column_map and the column checks
MapColumns(u) ==
  /\ up[u].pc = "map"
  /\ LET required_cols == RequiredCols(up[u].table_key)
         col_map       == build_column_map(up[u].file.headers, required_cols)
         missing       == MissingCols(required_cols, col_map)
         extra         == ExtraCols(up[u].file.headers, col_map)
         found         == [col_map |-> col_map, missing |-> missing, extra |-> extra]
         Fail(banner)  == Set(u, found @@ [pc |-> "done", error_banner |-> banner])
     IN  IF missing # <<>>
           THEN Fail([kind |-> "MissingColumns", missing |-> missing, extra |-> <<>>])
         ELSE IF extra # <<>>
           THEN Fail([kind |-> "ExtraColumns", missing |-> <<>>, extra |-> extra])
         ELSE IF Values(col_map) # Range(required_cols)
           THEN Fail([kind |-> "MappingError", missing |-> <<>>, extra |-> <<>>])
         ELSE Set(u, found @@ [pc |-> "validate"])
  /\ UNCHANGED store

\* Faulty variant of ValidateRow: the loop breaks at the first rejected line
ValidateRowStopAtReject(u) ==
  /\ up[u].pc = "validate"
  /\ up[u].i <= Len(up[u].file.rows)
  /\ LET i == up[u].i
         r == validate_and_cast_row(up[u].file.rows[i], up[u].col_map,
                                    ColTypes(up[u].table_key))
     IN  IF r.ok
           THEN Set(u, [i |-> i + 1,
                        valid_rows |-> Append(up[u].valid_rows,
                                              [src |-> i, row |-> r.casted])])
           ELSE Set(u, [i |-> Len(up[u].file.rows) + 1,
                        rejected |-> Append(up[u].rejected,
                                            [src |-> i, reason |-> r.reason])])
  /\ UNCHANGED store

\* One turn of the row loop
ValidateRow(u) ==
  /\ up[u].pc = "validate"
  /\ up[u].i <= Len(up[u].file.rows)
  /\ LET i == up[u].i
         r == validate_and_cast_row(up[u].file.rows[i], up[u].col_map,
                                    ColTypes(up[u].table_key))
     IN  IF r.ok
           THEN Set(u, [i |-> i + 1,
                        valid_rows |-> Append(up[u].valid_rows,
                                              [src |-> i, row |-> r.casted])])
           ELSE Set(u, [i |-> i + 1,
                        rejected |-> Append(up[u].rejected,
                                            [src |-> i, reason |-> r.reason])])
  /\ UNCHANGED store

\* After the row loop
EndValidation(u) ==
  /\ up[u].pc = "validate"
  /\ up[u].i > Len(up[u].file.rows)
  /\ IF up[u].valid_rows = <<>>
       THEN Set(u, [pc |-> "done",
                    error_banner |-> [kind |-> "AllRowsInvalid",
                                      missing |-> <<>>, extra |-> <<>>]])
       ELSE Set(u, [pc |-> "reconcile", warning_banner |-> up[u].rejected # <<>>])
  /\ UNCHANGED store

\* insert_rows_update_duplicates up to the first write: deduplicate, fetch
\* the existing rows, classify.  The fetch may raise.
FetchExisting(u) ==
  /\ up[u].pc = "reconcile"
  /\ \E raises \in BOOLEAN :
       LET table_key == up[u].table_key
           pk_cols   == PkCols(table_key)
           col_types == ColTypes(table_key)
           columns   == DfColumns(up[u].col_map)
           df        == drop_duplicates(up[u].valid_rows, pk_cols)
           existing  == FetchRows(store[table_key], df, pk_cols)
           ndf       == NormalizeFrame(df, columns, col_types)
           nexisting == NormalizeExisting(existing, columns, col_types)
           merged    == merge(ndf, nexisting, pk_cols)
       IN  IF raises
             THEN Set(u, [pc |-> "crashed", df |-> df, columns |-> columns])
           ELSE IF existing = <<>>
             THEN Set(u, [pc |-> "write", df |-> df, columns |-> columns,
                          existing |-> existing, new_rows |-> df,
                          new_columns |-> Plain(columns)])
           ELSE LET updated_rows == UpdatedRows(merged, columns, pk_cols, col_types)
                    skipped_rows == SkippedRows(merged, columns, pk_cols, col_types)
                IN  Set(u, [pc |-> "write", df |-> ndf, columns |-> columns,
                            existing |-> nexisting,
                            new_rows |-> NewRows(merged),
                            updated_rows |-> updated_rows,
                            skipped_rows |-> skipped_rows,
                            new_columns |->
                              MergedColumns(columns, RequiredCols(table_key), pk_cols),
                            updated_columns |-> ListColumns(updated_rows, columns),
                            skipped_columns |-> ListColumns(skipped_rows, columns)])
  /\ UNCHANGED store

Statement(op, r, columns, pk_cols, col_types) ==
  [op |-> op, src |-> r.src, pk |-> PkOf(r.row, pk_cols),
   row |-> [c \in Range(columns) |-> SqlValue(r.row[c], col_types[c])]]

\* Faulty variant of InsertRow: a failed INSERT undoes the statements before it
InsertRowRollback(u) ==
  /\ up[u].pc = "write"
  /\ up[u].inserted < Len(up[u].new_rows)
  /\ \E raises \in BOOLEAN :
       LET table_key == up[u].table_key
           col_types == ColTypes(table_key)
           r         == up[u].new_rows[up[u].inserted + 1]
       IN  IF raises
             THEN Set(u, [pc |-> "crashed"]) /\ store' = up[u].store0
             ELSE /\ store' = [store EXCEPT ![table_key] =
                                 ExecInsert(@, r.row, up[u].columns, col_types)]
                  /\ Set(u, [inserted |-> up[u].inserted + 1,
                             log |-> Append(up[u].log,
                                            Statement("INSERT", r, up[u].columns,
                                                      PkCols(table_key), col_types))])

\* One turn of an insert loop: session.sql(INSERT ...).collect() may raise
InsertRow(u) ==
  /\ up[u].pc = "write"
  /\ up[u].inserted < Len(up[u].new_rows)
  /\ \E raises \in BOOLEAN :
       LET table_key == up[u].table_key
           col_types == ColTypes(table_key)
           r         == up[u].new_rows[up[u].inserted + 1]
       IN  IF raises
             THEN Set(u, [pc |-> "crashed"]) /\ UNCHANGED store
             ELSE /\ store' = [store EXCEPT ![table_key] =
                                 ExecInsert(@, r.row, up[u].columns, col_types)]
                  /\ Set(u, [inserted |-> up[u].inserted + 1,
                             log |-> Append(up[u].log,
                                            Statement("INSERT", r, up[u].columns,
                                                      PkCols(table_key), col_types))])

\* One turn of the update loop: session.sql(UPDATE ...).collect() may raise
UpdateRow(u) ==
  /\ up[u].pc = "write"
  /\ up[u].inserted = Len(up[u].new_rows)
  /\ up[u].updated < Len(up[u].updated_rows)
  /\ \E raises \in BOOLEAN :
       LET table_key == up[u].table_key
           col_types == ColTypes(table_key)
           pk_cols   == PkCols(table_key)
           r         == up[u].updated_rows[up[u].updated + 1]
       IN  IF raises
             THEN Set(u, [pc |-> "crashed"]) /\ UNCHANGED store
             ELSE /\ store' = [store EXCEPT ![table_key] =
                                 ExecUpdate(@, r.row, up[u].columns, pk_cols, col_types)]
                  /\ Set(u, [updated |-> up[u].updated + 1,
                             log |-> Append(up[u].log,
                                            Statement("UPDATE", r, up[u].columns,
                                                      pk_cols, col_types))])

\* The return of insert_rows_update_duplicates
Return(u) ==
  /\ up[u].pc = "write"
  /\ up[u].inserted = Len(up[u].new_rows)
  /\ up[u].updated = Len(up[u].updated_rows)
  /\ Set(u, [pc |-> "done", skipped |-> Len(up[u].skipped_rows)])
  /\ UNCHANGED store

\* The script runs again on the same uploaded file
Reupload(u) ==
  /\ up[u].pc = "done"
  /\ up[u].run < MaxRuns
  /\ up' = [up EXCEPT ![u] =
              Fresh("start", up[u].file, up[u].run + 1,
                    [ran |-> TRUE, completed |-> up[u].error_banner = NoBanner],
                    store)]
  /\ UNCHANGED store

Next ==
  \E u \in Uploads :
    \/ ResolveTable(u)
    \/ MapColumns(u)
    \/ ValidateRow(u)
    \/ EndValidation(u)
    \/ FetchExisting(u)
    \/ InsertRow(u)
    \/ UpdateRow(u)
    \/ Return(u)
    \/ Reupload(u)

(***************************************************************************)
(* Inputs.  A file is a name, a header line and at most MaxRows lines; its *)
(* lines differ from a base line in at most one cell.  The database holds, *)
(* for the table of the file, no row, one row, or two rows of which the    *)
(* first is the base row and the second has another key or is the base row *)
(* again; a row differs from the base row in at most one column, and a     *)
(* column outside the key may be NULL.                                     *)
(***************************************************************************)
BaseCell(col) ==
  CASE col = "NAME"                  -> "A"
    [] col = "LOG_DATE"              -> "2024-01-01"
    [] col = "ID"                    -> "E1"
    [] col = "ACCOUNT_NAME"          -> "Acme"
    [] col = "SIGMA_DOLLAR_OPPORTUNITY_ESTIMATE" -> "0.0"
    [] col = "POLICY_ID"             -> "P1"
    [] col = "CLAIM_COUNT"           -> "3"
    [] col = "LAST_CLAIM_DATE"       -> "2024-01-01"
    [] col = "SMOKER_STATUS"         -> "true"
    [] col = "DATA_UPLOAD_TIMESTAMP" -> "2024-01-01 12:00:00"
    [] OTHER                         -> "x"

AltCells(col) ==
  CASE col = "NAME"                  -> {"B", " "}
    [] col = "LOG_DATE"              -> {"01/01/2024", "2024-01-02"}
    [] col = "ID"                    -> {"E2"}
    [] col = "ACCOUNT_NAME"          -> {"None", ""}
    [] col = "SIGMA_DOLLAR_OPPORTUNITY_ESTIMATE" -> {"5e-10", "1e-08", "nan", "abc"}
    [] col = "POLICY_ID"             -> {"P2"}
    [] col = "CLAIM_COUNT"           -> {"4", "3.5"}
    [] col = "LAST_CLAIM_DATE"       -> {"2024-01-02"}
    [] col = "SMOKER_STATUS"         -> {"false", "maybe"}
    [] col = "DATA_UPLOAD_TIMESTAMP" -> {"2024-01-01 12:00:00.5"}
    [] OTHER                         -> {}

\* The schema column a header is read as, or the header itself
ColumnOf(h, table_key) ==
  LET req == RequiredCols(table_key)
  IN  IF \E r \in Range(req) : normalize_name(r) = normalize_name(h)
        THEN CHOOSE r \in Range(req) : normalize_name(r) = normalize_name(h)
        ELSE h

RawRows(headers, table_key) ==
  LET base == [h \in Range(headers) |-> BaseCell(ColumnOf(h, table_key))]
  IN  {base} \cup
      {[base EXCEPT ![h] = a] :
         <<h, a>> \in UNION {{h} \X AltCells(ColumnOf(h, table_key)) : h \in Range(headers)}}

FilesOf(name, headers, table_key) ==
  {[name |-> name, headers |-> headers, rows |-> rows] :
     rows \in UNION {[1..n -> RawRows(headers, table_key)] : n \in 0..MaxRows}}

GuestHeaders ==
  { <<"NAME", "LOG_DATE">>, <<"Log Date", "name">>, <<"NAME">>,
    <<"NAME", "LOG-DATE", "Notes">>, <<"name", "Notes">>,
    <<"NAME", "Log Date", "log_date">> }

OrgHeaders == <<"id", "Account Name", "sigma-dollar-opportunity-estimate">>

PolicyHeaders ==
  <<"policy_id", "claim count", "Last Claim Date", "Smoker-Status",
    "data_upload_timestamp">>

GuestFiles ==
  UNION {FilesOf("2024_GuestLog_Export.csv", h, "guest_log") : h \in GuestHeaders}

OrgFiles == FilesOf("org-entity.csv", OrgHeaders, "org_entities")

PolicyFiles == FilesOf("Policy Risk.csv", PolicyHeaders, "policyriskdata")

OtherFiles ==
  FilesOf("random.csv", <<"NAME", "LOG_DATE">>, "guest_log")
    \cup FilesOf("guest_log.txt", <<"NAME", "LOG_DATE">>, "guest_log")

\* The names of the files, and the table match_table infers from each
FileNames ==
  {"2024_GuestLog_Export.csv", "org-entity.csv", "Policy Risk.csv",
   "random.csv", "guest_log.txt"}

InferredTable == [name \in FileNames |-> match_table(name)]

BaseValue(col, type) == CastCell(BaseCell(col), type).v

AltValues(col) ==
  CASE col = "NAME"                  -> {StrV("B")}
    [] col = "LOG_DATE"              -> {DateV(1)}
    [] col = "ID"                    -> {StrV("E2")}
    [] col = "ACCOUNT_NAME"          -> {StrV("B"), NULL}
    [] col = "SIGMA_DOLLAR_OPPORTUNITY_ESTIMATE" -> {FloatV(0, 1), FloatV(0, 20), NULL}
    [] col = "POLICY_ID"             -> {StrV("P2")}
    [] col = "CLAIM_COUNT"           -> {NULL}
    [] col = "LAST_CLAIM_DATE"       -> {NULL}
    [] col = "SMOKER_STATUS"         -> {BoolV(FALSE), NULL}
    [] col = "DATA_UPLOAD_TIMESTAMP" -> {TimestampV(12 * 60 * 60 + 1, 0), NULL}
    [] OTHER                         -> {}

BaseRow(table_key) ==
  [c \in Range(RequiredCols(table_key)) |-> BaseValue(c, ColTypes(table_key)[c])]

StoredRows(table_key) ==
  LET cols == Range(RequiredCols(table_key))
      base == BaseRow(table_key)
  IN  {base} \cup
      {[base EXCEPT ![c] = v] :
         <<c, v>> \in UNION {{c} \X AltValues(c) : c \in cols}}

\* The stored rows of the key of the base row
SameKey(table_key) ==
  {r \in StoredRows(table_key) :
     PkOf(r, PkCols(table_key)) = PkOf(BaseRow(table_key), PkCols(table_key))}

\* A second stored row: one of another key, or the base row again
TwoRows(table_key) ==
  (StoredRows(table_key) \ SameKey(table_key)) \cup {BaseRow(table_key)}

TableContents(table_key) ==
  {<<>>} \cup {<<r>> : r \in StoredRows(table_key)}
         \cup {<<BaseRow(table_key), r>> : r \in TwoRows(table_key)}

EmptyStore == [t \in TableKeys |-> <<>>]

Off == Fresh("off", NoFile, 1, NoPrev, EmptyStore)

InputsOf(files, table_key) == files \X TableContents(table_key)

Inputs ==
  InputsOf(GuestFiles \cup OtherFiles, "guest_log")
    \cup InputsOf(OrgFiles, "org_entities")
    \cup InputsOf(PolicyFiles, "policyriskdata")

StoreWith(table_key, rows) == [EmptyStore EXCEPT ![table_key] = rows]

TableOfInput(file) ==
  IF InferredTable[file.name] = NoTable THEN "guest_log" ELSE InferredTable[file.name]

\* One upload, against any content of its table
Init ==
  \E inp \in Inputs :
    /\ store = StoreWith(TableOfInput(inp[1]), inp[2])
    /\ up = [u \in Uploads |->
               IF u = 1 THEN Fresh("start", inp[1], 1, NoPrev, store) ELSE Off]

Spec == Init /\ [][Next]_vars

\* Two uploads of one-line org-entities files at once, against an empty or a
\* one-row table
RaceTable == "org_entities"

RaceFiles ==
  {f \in OrgFiles :
     /\ Len(f.rows) = 1
     /\ f.rows[1]["Account Name"] = "Acme"
     /\ f.rows[1]["sigma-dollar-opportunity-estimate"] \in {"0.0", "1e-08"}}

InitRace ==
  \E f1 \in RaceFiles, f2 \in RaceFiles, rows \in {<<>>, <<BaseRow(RaceTable)>>} :
    /\ store = StoreWith(RaceTable, rows)
    /\ up = [u \in Uploads |-> Fresh("start", IF u = 1 THEN f1 ELSE f2, 1, NoPrev, store)]

SpecRace == InitRace /\ [][Next]_vars

(***************************************************************************)
(* Properties.  U is the one upload of Spec; Table0 is what its table held *)
(* when the run began.                                                     *)
(***************************************************************************)
U == up[1]

Table0 == U.store0[U.table_key]

Pk(row) == PkOf(row, PkCols(U.table_key))

NonKeyCols == Range(RequiredCols(U.table_key)) \ Range(PkCols(U.table_key))

\* The run went through insert_rows_update_duplicates and returned
Completed == U.pc = "done" /\ U.error_banner = NoBanner

\* Classification is over
Classified == U.pc = "write" \/ Completed

OneRowPerKey(rows) ==
  \A i, j \in 1..Len(rows) : Pk(rows[i]) = Pk(rows[j]) => i = j

\* How many rows of a frame were cast from line src
Count(frame, src) == Cardinality({i \in 1..Len(frame) : frame[i].src = src})

\* How many statements of kind op the run has issued for a key
Issued(op, pk) ==
  Cardinality({i \in 1..Len(U.log) : U.log[i].op = op /\ U.log[i].pk = pk})

\* The equality rule of the diff as the specification states it
SpecEqual(val_new, val_exist, type) ==
  \/ isnull(val_new) /\ isnull(val_exist)
  \/ /\ ~isnull(val_new)
     /\ ~isnull(val_exist)
     /\ IF type = "float" THEN ~AbsDiffExceeds(val_new, val_exist)
                          ELSE PyStr(val_new) = PyStr(val_exist)

SpecIdentical(row, exist) ==
  \A c \in NonKeyCols : SpecEqual(row[c], exist[c], ColTypes(U.table_key)[c])

StoredWithKey(pk) == {j \in 1..Len(Table0) : Pk(Table0[j]) = pk}

InClass(r, n, u, s) ==
  /\ Count(U.new_rows, r.src) = n
  /\ Count(U.updated_rows, r.src) = u
  /\ Count(U.skipped_rows, r.src) = s

\* C1: against a store with at most one row per primary key, a completed run
\* has put every deduplicated valid row in exactly one class and issued exactly
\* the matching write: key absent -> new, one INSERT, no UPDATE; key present
\* and some non-key column differs -> updated, one UPDATE, no INSERT; key
\* present and all non-key columns equal -> skipped, no write.
C1_ClassifyAndWrite ==
  (Completed /\ OneRowPerKey(Table0)) =>
    \A i \in 1..Len(U.df) :
      LET r == U.df[i]
          m == StoredWithKey(Pk(r.row))
      IN  IF m = {}
            THEN /\ InClass(r, 1, 0, 0)
                 /\ Issued("INSERT", Pk(r.row)) = 1
                 /\ Issued("UPDATE", Pk(r.row)) = 0
          ELSE IF \E j \in m : ~SpecIdentical(r.row, Table0[j])
            THEN /\ InClass(r, 0, 1, 0)
                 /\ Issued("INSERT", Pk(r.row)) = 0
                 /\ Issued("UPDATE", Pk(r.row)) = 1
          ELSE /\ InClass(r, 0, 0, 1)
               /\ Issued("INSERT", Pk(r.row)) = 0
               /\ Issued("UPDATE", Pk(r.row)) = 0

\* C2: a second run on the same file, after a first run that completed,
\* inserts nothing, updates nothing, skips every deduplicated row, issues no
\* statement and leaves the store as it was.
C2_Idempotent ==
  (Completed /\ U.run = 2 /\ U.prev.completed) =>
    /\ U.inserted = 0
    /\ U.updated = 0
    /\ U.new_rows = <<>>
    /\ U.updated_rows = <<>>
    /\ \A i \in 1..Len(U.df) : Count(U.skipped_rows, U.df[i].src) >= 1
    /\ U.log = <<>>
    /\ store = U.store0

Unrecognized(file) == InferredTable[file.name] = NoTable

\* The headers lack a required column, or hold one that is no required column
SchemaMismatch(file) ==
  LET t == InferredTable[file.name]
      Same(h, r) == normalize_name(h) = normalize_name(r)
  IN  /\ t # NoTable
      /\ \/ \E r \in Range(RequiredCols(t)) : \A h \in Range(file.headers) : ~Same(h, r)
         \/ \E h \in Range(file.headers) : \A r \in Range(RequiredCols(t)) : ~Same(h, r)

\* The row loop has run to its end
ValidationOver ==
  \/ U.pc \in {"reconcile", "write", "crashed"}
  \/ U.pc = "done" /\ U.error_banner.kind \in {"", "AllRowsInvalid"}

\* C3: no statement is issued on a fatal upload.  With no table inferred, or
\* with a missing or an extra column, no row is validated and the run ends
\* with an error; with every row rejected the run ends with an error; in all
\* three cases nothing is written and the store is as it was.
C3_FatalNoWrites ==
  /\ (U.pc # "off" /\ (Unrecognized(U.file) \/ SchemaMismatch(U.file))) =>
       /\ U.pc \in {"start", "map", "done", "stopped"}
       /\ U.pc = "done" =>
            U.error_banner.kind \in {"UnrecognizedFile", "MissingColumns", "ExtraColumns"}
       /\ U.i = 1 /\ U.valid_rows = <<>> /\ U.rejected = <<>>
       /\ U.log = <<>> /\ store = U.store0
  /\ (ValidationOver /\ U.valid_rows = <<>>) =>
       /\ U.pc = "done" /\ U.error_banner.kind = "AllRowsInvalid"
       /\ U.log = <<>> /\ store = U.store0

\* C3 is reached: a file of lines that all read well is refused for an extra column
C3_Reached ==
  /\ U.pc = "done"
  /\ U.error_banner.kind = "ExtraColumns"
  /\ U.file.rows # <<>>
  /\ \A i \in 1..Len(U.file.rows) : \A h \in DOMAIN U.file.rows[i] :
       U.file.rows[i][h] = BaseCell(ColumnOf(h, "guest_log"))

\* The statements a run is to issue: the inserts, then the updates
Plan ==
  LET t == U.table_key
      S(op, r) == Statement(op, r, U.columns, PkCols(t), ColTypes(t))
  IN  [i \in 1..Len(U.new_rows) |-> S("INSERT", U.new_rows[i])]
        \o [i \in 1..Len(U.updated_rows) |-> S("UPDATE", U.updated_rows[i])]

\* What a table holds after the statements of a log, in order
RECURSIVE Replay(_, _)
Replay(log, rows) ==
  IF log = <<>> THEN rows
  ELSE LET st   == Head(log)
           next == IF st.op = "INSERT" THEN Append(rows, st.row)
                   ELSE [i \in 1..Len(rows) |->
                           IF Pk(rows[i]) = st.pk
                             THEN [c \in DOMAIN rows[i] |->
                                     IF c \in NonKeyCols THEN st.row[c] ELSE rows[i][c]]
                             ELSE rows[i]]
       IN  Replay(Tail(log), next)

\* C4: when the store raises, the run stops there: what it has issued is a
\* proper prefix of its plan, one statement per row, nothing more can be
\* issued, and the table holds exactly the effect of the statements that went
\* through; nothing is undone.
C4_FailFast ==
  U.pc = "crashed" =>
    /\ Len(U.log) = U.inserted + U.updated
    /\ Len(U.log) <= Len(Plan)
    /\ Plan # <<>> => Len(U.log) < Len(Plan)
    /\ U.log = SubSeq(Plan, 1, Len(U.log))
    /\ store = [U.store0 EXCEPT ![U.table_key] = Replay(U.log, Table0)]
    /\ ~ENABLED (InsertRow(1) \/ UpdateRow(1) \/ Return(1))

\* C4 is reached: the store raises after a statement went through
C4_Reached == U.pc = "crashed" /\ U.log # <<>>

\* C5: a rejected line stops nothing: the loop goes on to every line, every
\* line lands exactly once among the valid or the rejected rows, the latter
\* with a reason; a run with a valid row goes on to reconcile them all; every
\* statement carries the data of a valid row, none the data of a rejected one.
C5_RowRejection ==
  /\ U.pc = "validate" => Len(U.valid_rows) + Len(U.rejected) = U.i - 1
  /\ ValidationOver =>
       /\ \A n \in 1..Len(U.file.rows) :
            Count(U.valid_rows, n) + Count(U.rejected, n) = 1
       /\ \A k \in 1..Len(U.rejected) :
            /\ U.rejected[k].reason.kind # ""
            /\ U.rejected[k].reason.col \in Range(U.file.headers)
       /\ U.valid_rows # <<>> => U.error_banner = NoBanner
  /\ \A k \in 1..Len(U.log) :
       /\ Count(U.rejected, U.log[k].src) = 0
       /\ \E v \in 1..Len(U.valid_rows) :
            /\ U.valid_rows[v].src = U.log[k].src
            /\ U.log[k].row = [c \in DOMAIN U.valid_rows[v].row |->
                                 SqlValue(U.valid_rows[v].row[c],
                                          ColTypes(U.table_key)[c])]
  /\ Completed =>
       /\ Len(U.log) = Len(U.new_rows) + Len(U.updated_rows)
       /\ \A v \in 1..Len(U.valid_rows) : \E i \in 1..Len(U.df) :
            /\ Pk(U.df[i].row) = Pk(U.valid_rows[v].row)
            /\ Count(U.new_rows, U.df[i].src) + Count(U.updated_rows, U.df[i].src)
                 + Count(U.skipped_rows, U.df[i].src) >= 1

\* C5 is reached: a line after a rejected line was written
C5_Reached ==
  /\ Completed
  /\ \E k \in 1..Len(U.rejected), n \in 1..Len(U.log) : U.rejected[k].src < U.log[n].src

\* The valid rows that come after a valid row of the same key
LaterDuplicate(v) ==
  \E w \in 1..Len(U.valid_rows) :
    /\ U.valid_rows[w].src < U.valid_rows[v].src
    /\ Pk(U.valid_rows[w].row) = Pk(U.valid_rows[v].row)

\* Of the valid rows of one key only the first in file order is matched,
\* classified and written; the later ones are in no result set and no statement
FirstWins ==
  /\ \A v \in 1..Len(U.valid_rows) :
       IF LaterDuplicate(v)
         THEN /\ Count(U.df, U.valid_rows[v].src) = 0
              /\ InClass(U.valid_rows[v], 0, 0, 0)
              /\ \A k \in 1..Len(U.log) : U.log[k].src # U.valid_rows[v].src
         ELSE /\ Count(U.df, U.valid_rows[v].src) = 1
              /\ \E i \in 1..Len(U.df) :
                   /\ U.df[i].src = U.valid_rows[v].src
                   /\ U.df[i].row = U.valid_rows[v].row
  /\ Len(U.df) <= Len(U.valid_rows)

Writes(pk) == Issued("INSERT", pk) + Issued("UPDATE", pk)

LoggedKeys == {U.log[k].pk : k \in 1..Len(U.log)}

\* C6 as stated: first occurrence wins, so that one upload issues at most one
\* write for each primary-key tuple
C6_OneWritePerKey ==
  Classified => (FirstWins /\ \A pk \in LoggedKeys : Writes(pk) <= 1)

\* What holds of C6: first occurrence wins; one upload issues at most one INSERT
\* for each primary-key tuple, and at most one write for it unless the table
\* held several rows of that key, when it issues at most one UPDATE for each
\* of them
C6_FirstOccurrenceWins ==
  Classified =>
    /\ FirstWins
    /\ \A pk \in LoggedKeys :
         /\ Issued("INSERT", pk) <= 1
         /\ Writes(pk) <= IF StoredWithKey(pk) = {} THEN 1
                          ELSE Cardinality(StoredWithKey(pk))

\* C7: a row whose key is that of one stored row is classified identical
\* exactly when every pair of non-key values is equal under the rule: both
\* null, or floats no more than 1e-9 apart, or else the same string form; a
\* null against a value is a difference
C7_EqualityRule ==
  Classified =>
    \A i \in 1..Len(U.df) :
      LET r == U.df[i]
          m == StoredWithKey(Pk(r.row))
      IN  Cardinality(m) = 1 =>
            \A j \in m :
              (Count(U.skipped_rows, r.src) = 1) <=> SpecIdentical(r.row, Table0[j])

\* C8: past the column checks the column map is a bijection from the uploaded
\* headers onto the required columns
C8_Bijection ==
  (U.pc = "validate" \/ ValidationOver) =>
    /\ Keys(U.col_map) = Range(U.file.headers)
    /\ Values(U.col_map) = Range(RequiredCols(U.table_key))
    /\ \A i, j \in 1..Len(U.col_map) : U.col_map[i][2] = U.col_map[j][2] => i = j

\* The required columns no header is read as, and the headers read as none
SpecMissing(file) ==
  LET Absent(r) == \A h \in Range(file.headers) : normalize_name(h) # normalize_name(r)
  IN  SelectSeq(RequiredCols(InferredTable[file.name]), Absent)

SpecExtra(file) ==
  LET Unknown(h) == \A r \in Range(RequiredCols(InferredTable[file.name])) :
                      normalize_name(h) # normalize_name(r)
  IN  SelectSeq(file.headers, Unknown)

ColumnChecksFailed ==
  U.pc = "done" /\ U.error_banner.kind \in {"MissingColumns", "ExtraColumns"}

InsertedKey(u, pk) ==
  \E i \in 1..up[u].inserted :
    PkOf(up[u].new_rows[i].row, PkCols(up[u].table_key)) = pk

RowsWithKey(pk) ==
  {j \in 1..Len(store[RaceTable]) : PkOf(store[RaceTable][j], PkCols(RaceTable)) = pk}

RaceKeys == {<<StrV(id)>> : id \in {"E1", "E2"}}

\* C10: nothing stands between two uploads and one key: once both uploads have
\* inserted the row of a key that each classified as new, the table holds two
\* rows of that key
C10_KeyRace ==
  \A pk \in RaceKeys :
    (InsertedKey(1, pk) /\ InsertedKey(2, pk)) => Cardinality(RowsWithKey(pk)) >= 2

\* C10 is reached: both uploads inserted a key the table did not hold
C10_Reached ==
  \E pk \in RaceKeys :
    /\ InsertedKey(1, pk)
    /\ InsertedKey(2, pk)
    /\ up[1].run = 1 /\ up[2].run = 1
    /\ \A j \in 1..Len(up[1].store0[RaceTable]) :
         PkOf(up[1].store0[RaceTable][j], PkCols(RaceTable)) # pk
    /\ Cardinality(RowsWithKey(pk)) = 2

\* The declared columns of the table of the upload, in their declared order
SchemaColumns == Plain(RequiredCols(U.table_key))

\* The three row-sets a completed run returns, each with its columns
ResultSets ==
  { <<U.new_rows, U.new_columns>>,
    <<U.updated_rows, U.updated_columns>>,
    <<U.skipped_rows, U.skipped_columns>> }

\* C11: each row-set that a completed run returns with a row in it carries
\* exactly the declared columns of the table in their declared order: no
\* '_existing' copy of a column, and no trace of the order of the headers
C11_SchemaColumns ==
  Completed => \A rs \in ResultSets : rs[1] # <<>> => rs[2] = SchemaColumns

\* The distinct primary-key tuples among the valid rows
DistinctKeys == {Pk(U.valid_rows[i].row) : i \in 1..Len(U.valid_rows)}

Statements(op) == Cardinality({i \in 1..Len(U.log) : U.log[i].op = op})

\* C12: a run that completes returns inserted + updated + skipped equal to
\* the number of distinct primary-key tuples among the valid rows, inserted
\* equal to the number of INSERT statements issued and updated to that of
\* UPDATE statements, whatever the table held
C12_CountConservation ==
  Completed =>
    /\ U.inserted + U.updated + U.skipped = Cardinality(DistinctKeys)
    /\ U.inserted = Statements("INSERT")
    /\ U.updated = Statements("UPDATE")

====
